---- MODULE Spec2Model ----
(***************************************************************************)
(* A model of risk_explainer.py: the formatter (format_stack,             *)
(* format_scores), the explanation client (explain_risk) and the HTTP     *)
(* endpoint (api_explain_risk) served by a single-threaded event loop.    *)
(*                                                                         *)
(* Text the formatter produces is a sequence of one-character strings, so *)
(* that joining and line splitting are real operations.  Error messages   *)
(* and response details are TLA+ strings joined with \o.                  *)
(***************************************************************************)
EXTENDS Integers, Sequences, FiniteSets, TLC

VARIABLES
    client,        \* the module-level OpenAI client handle
    loop,          \* the request whose coroutine runs on the event loop (0: none)
    pc,            \* per request: where its handling is
    stack,         \* per request: the stack argument
    risk_scores,   \* per request: the risk_scores argument
    context,       \* per request: the prompt built by explain_risk
    calls,         \* per request: calls issued to the external provider
    reply,         \* per request: what the provider answered
    outcome,       \* per request: how explain_risk ended
    response,      \* per request: the HTTP response sent
    call_fn,       \* formatter harness: the function applied
    call_arg,      \* formatter harness: its argument
    call_ret       \* formatter harness: its result

vars == <<client, loop, pc, stack, risk_scores, context, calls, reply,
          outcome, response, call_fn, call_arg, call_ret>>
service_vars == <<client, loop, pc, stack, risk_scores, context, calls,
                  reply, outcome, response>>
harness_vars == <<call_fn, call_arg, call_ret>>

\* ------------------------------------------------------------------ bounds
NumReqs == 2
MaxStack == 2
MaxScores == 2

Reqs == 1..NumReqs

\* Python's None, and a result that was not produced yet.
NoneVal == [kind |-> "None"]
NotYet == [kind |-> "NotYet"]

\* ----------------------------------------------------------------- text
NL == "\n"

RECURSIVE Join(_, _)
\* sep.join(parts)
Join(parts, sep) ==
    IF parts = <<>> THEN <<>>
    ELSE IF Len(parts) = 1 THEN Head(parts)
    ELSE Head(parts) \o sep \o Join(Tail(parts), sep)

RECURSIVE SplitLines(_)
\* The lines of a text: "" has none, otherwise the pieces between newlines.
SplitLines(s) ==
    IF s = <<>> THEN <<>>
    ELSE IF \A i \in 1..Len(s) : s[i] # NL THEN <<s>>
    ELSE LET k == CHOOSE i \in 1..Len(s) :
                      s[i] = NL /\ \A j \in 1..(i - 1) : s[j] # NL
         IN  <<SubSeq(s, 1, k - 1)>> \o
             (IF k = Len(s) THEN <<<<>>>> ELSE SplitLines(SubSeq(s, k + 1, Len(s))))

DigitChar(d) ==
    CASE d = 0 -> "0" [] d = 1 -> "1" [] d = 2 -> "2" [] d = 3 -> "3"
      [] d = 4 -> "4" [] d = 5 -> "5" [] d = 6 -> "6" [] d = 7 -> "7"
      [] d = 8 -> "8" [] d = 9 -> "9"

RECURSIVE NatStr(_)
NatStr(n) == IF n < 10 THEN <<DigitChar(n)>>
             ELSE NatStr(n \div 10) \o <<DigitChar(n % 10)>>

\* str() of a float with one decimal, the float given in tenths: 2 is 0.2,
\* 10 is 1.0, -5 is -0.5.
FloatStr(v) ==
    LET a == IF v < 0 THEN 0 - v ELSE v
    IN  (IF v < 0 THEN <<"-">> ELSE <<>>) \o NatStr(a \div 10) \o <<".">> \o
        <<DigitChar(a % 10)>>

\* dict.get(key, default)
Get(s, key, default) == IF key \in DOMAIN s THEN s[key] ELSE default

Ok(v) == [kind |-> "return", value |-> v]
Raise(exc, msg) == [kind |-> "raise", exc |-> exc, msg |-> msg]

\* s['name'] on a dict without that key; str(KeyError('name')) is "'name'".
KeyErrorName == Raise("KeyError", "'name'")

\* ------------------------------------------------------------- formatter
\* One element of format_stack's list comprehension.
StackLineOr(s) ==
    LET d == IF "dosage" \in DOMAIN s /\ s["dosage"] # <<>>
             THEN s["dosage"] ELSE <<"N", "/", "A">>
        t == IF "timing" \in DOMAIN s /\ s["timing"] # <<>>
             THEN s["timing"]
             ELSE <<"u", "n", "s", "p", "e", "c", "i", "f", "i", "e", "d">>
    IN  <<"-", " ">> \o s["name"] \o <<":", " ">> \o d \o <<" ", "(">> \o t \o <<")">>

StackLine(s) ==
    <<"-", " ">> \o s["name"] \o <<":", " ">> \o
    Get(s, "dosage", <<"N", "/", "A">>) \o <<" ", "(">> \o
    Get(s, "timing", <<"u", "n", "s", "p", "e", "c", "i", "f", "i", "e", "d">>) \o
    <<")">>

format_stack(st) ==
    IF \E i \in 1..Len(st) : "name" \notin DOMAIN st[i]
    THEN KeyErrorName
    ELSE Ok(Join([i \in 1..Len(st) |-> StackLine(st[i])], <<NL>>))

\* One element of format_scores' list comprehension; an item is <<key, value>>.
ScoreLine(item) == item[1] \o <<":", " ">> \o FloatStr(item[2])

\* A mapping whose iteration starts from the last key.
format_scores_reversed(scores) ==
    Ok(Join([i \in 1..Len(scores) |-> ScoreLine(scores[Len(scores) + 1 - i])],
                <<NL>>))

\* scores is the mapping as the sequence of its items, in iteration order.
format_scores(scores) ==
    Ok(Join([i \in 1..Len(scores) |-> ScoreLine(scores[i])], <<NL>>))

\* ------------------------------------------------- formatter harness inputs
EntryKeys == {"name", "dosage", "timing"}
Texts == {<<>>, <<"x">>}
Entries == UNION {[K -> Texts] : K \in SUBSET EntryKeys}

SeqsUpTo(S, n) == UNION {[1..k -> S] : k \in 0..n}

StackInputs == SeqsUpTo(Entries, MaxStack)

ScoreKeys == {<<"a">>, <<"b">>, <<"c", "d">>}
ScoreValues == {2, 10, -5}
ScoreInputs ==
    {sc \in SeqsUpTo(ScoreKeys \X ScoreValues, MaxScores) :
        \A i, j \in 1..Len(sc) : i # j => sc[i][1] # sc[j][1]}

\* ------------------------------------------------------- formatter harness
\* format_stack applied to the argument.
ApplyFormatStack ==
    /\ call_fn = "format_stack"
    /\ call_ret = NotYet
    /\ call_ret' = format_stack(call_arg)
    /\ UNCHANGED <<call_fn, call_arg, service_vars>>

\* format_scores applied to the argument.
ApplyFormatScores ==
    /\ call_fn = "format_scores"
    /\ call_ret = NotYet
    /\ call_ret' = format_scores(call_arg)
    /\ UNCHANGED <<call_fn, call_arg, service_vars>>

\* ------------------------------------------------------------------ schema
RiskExplanationFields ==
    {"risk_level", "user_friendly_summary", "warnings", "next_steps",
     "affected_compounds", "confidence_score"}

\* The schema with risk_level typed as a plain str.
RiskExplanationAnyLevel(v) == DOMAIN v = RiskExplanationFields

\* Whether v validates as a RiskExplanation: the six fields, risk_level one of
\* the Literal's values.  confidence_score is a float of any value.
RiskExplanation(v) ==
    /\ DOMAIN v = RiskExplanationFields
    /\ v["risk_level"] \in {"low", "moderate", "high", "critical"}

\* ------------------------------------------------------- external provider
\* What the provider's reply may carry as risk_level and confidence_score
\* (in tenths: 5 is 0.5, 15 is 1.5, outside [0, 1]).
ReplyLevels == {"low", "critical", "severe"}
ReplyConfidences == {5, 15}

ReplyContents ==
    [risk_level : ReplyLevels,
     user_friendly_summary : {"Zinc and magnesium compete."},
     warnings : {<<>>, <<"Absorption conflict">>},
     next_steps : {<<"Separate doses">>},
     affected_compounds : {<<"Zn", "Mg">>},
     confidence_score : ReplyConfidences]

ProviderErrors == {"Connection error.", "Request timed out."}

\* The ways one call to the provider can end: an error (network, timeout,
\* auth, rate limit), a completion whose message is a refusal, or a completion
\* with content.
Replies ==
    [kind : {"error"}, msg : ProviderErrors] \cup
    {[kind |-> "refusal"]} \cup
    [kind : {"content"}, content : ReplyContents]

ValidationMsg == "1 validation error for RiskExplanation"

\* client.chat.completions.parse(..., response_format=RiskExplanation) on a
\* reply: the provider's error is raised; a refusal has no parsed object;
\* content is validated against the schema.
parse(rep) ==
    CASE rep.kind = "error" -> Raise("APIError", rep.msg)
      [] rep.kind = "refusal" -> Ok([parsed |-> NoneVal])
      [] rep.kind = "content" ->
            IF RiskExplanation(rep.content)
            THEN Ok([parsed |-> rep.content])
            ELSE Raise("ValidationError", ValidationMsg)

\* ---------------------------------------------------------- request inputs
Mag == [name |-> <<"M", "g">>, dosage |-> <<"4">>, timing |-> <<"p", "m">>]
Zinc == [name |-> <<"Z", "n">>]
NoName == [dosage |-> <<"3">>]

Stacks == {<<Mag, Zinc>>, <<Zinc, NoName>>}
ScoreMaps == {<<>>, << <<<<"a">>, 2>> >>}

SystemPrompt == "You are a supplement safety expert."

\* The f-string of explain_risk around the two formatted blocks.
Prompt(stack_block, scores_block) ==
    [head |-> "User's Current Stack:", stack |-> stack_block,
     mid |-> "Risk Assessment Scores:", scores |-> scores_block,
     tail |-> "Provide a clear, actionable risk explanation for this supplement combination."]

\* ---------------------------------------------------------------- service
\* A client's request reaches the server, its body carrying stack and
\* risk_scores; the endpoint coroutine waits for the event loop.
Arrive(r, st, sc) ==
    /\ pc[r] = "idle"
    /\ pc' = [pc EXCEPT ![r] = "accepted"]
    /\ stack' = [stack EXCEPT ![r] = st]
    /\ risk_scores' = [risk_scores EXCEPT ![r] = sc]
    /\ UNCHANGED <<client, loop, context, calls, reply, outcome, response,
                   harness_vars>>

\* The event loop runs the coroutine of api_explain_risk: it enters the try
\* block and calls explain_risk.  The loop runs one coroutine at a time.
Enter(r) ==
    /\ pc[r] = "accepted"
    /\ loop = 0
    /\ loop' = r
    /\ pc' = [pc EXCEPT ![r] = "explain_risk"]
    /\ UNCHANGED <<client, stack, risk_scores, context, calls, reply, outcome,
                   response, harness_vars>>

\* explain_risk evaluates the f-string and then goes on to the call although
\* an entry has no name.
BuildContextLenient(r) ==
    /\ pc[r] = "explain_risk"
    /\ context' = [context EXCEPT ![r] = Prompt(format_stack(stack[r]),
                                                 format_scores(risk_scores[r]))]
    /\ pc' = [pc EXCEPT ![r] = "call"]
    /\ UNCHANGED <<client, loop, stack, risk_scores, calls, reply, outcome,
                   response, harness_vars>>

\* explain_risk evaluates the f-string: format_stack, then format_scores.  A
\* formatter that raises ends explain_risk there.
BuildContext(r) ==
    /\ pc[r] = "explain_risk"
    /\ LET fs == format_stack(stack[r])
           fc == format_scores(risk_scores[r])
       IN  IF fs.kind = "raise"
           THEN /\ outcome' = [outcome EXCEPT ![r] = fs]
                /\ pc' = [pc EXCEPT ![r] = "handler"]
                /\ UNCHANGED context
           ELSE /\ context' = [context EXCEPT ![r] = Prompt(fs.value, fc.value)]
                /\ pc' = [pc EXCEPT ![r] = "call"]
                /\ UNCHANGED outcome
    /\ UNCHANGED <<client, loop, stack, risk_scores, calls, reply, response,
                   harness_vars>>

\* explain_risk issues the call to the provider through the shared client and
\* blocks on it: the client is the synchronous one.
IssueCall(r) ==
    /\ pc[r] = "call"
    /\ calls' = [calls EXCEPT ![r] = @ + 1]
    /\ pc' = [pc EXCEPT ![r] = "waiting"]
    /\ UNCHANGED <<client, loop, stack, risk_scores, context, reply, outcome,
                   response, harness_vars>>

\* The call ends, and on an error the call is issued again.
ProviderRepliesRetry(r, rep) ==
    /\ pc[r] = "waiting"
    /\ reply' = [reply EXCEPT ![r] = rep]
    /\ IF rep.kind = "error" /\ calls[r] < 2
       THEN /\ pc' = [pc EXCEPT ![r] = "call"]
            /\ UNCHANGED outcome
       ELSE /\ outcome' = [outcome EXCEPT ![r] =
                   LET p == parse(rep)
                   IN  IF p.kind = "return" THEN Ok(p.value.parsed) ELSE p]
            /\ pc' = [pc EXCEPT ![r] = "handler"]
    /\ UNCHANGED <<client, loop, stack, risk_scores, context, calls, response,
                   harness_vars>>

\* The call ends: parse raises, or explain_risk returns
\* response.choices[0].message.parsed.
ProviderReplies(r, rep) ==
    /\ pc[r] = "waiting"
    /\ reply' = [reply EXCEPT ![r] = rep]
    /\ outcome' = [outcome EXCEPT ![r] =
           LET p == parse(rep)
           IN  IF p.kind = "return" THEN Ok(p.value.parsed) ELSE p]
    /\ pc' = [pc EXCEPT ![r] = "handler"]
    /\ UNCHANGED <<client, loop, stack, risk_scores, context, calls, response,
                   harness_vars>>

ErrorPrefix == "OpenAI API error: "

\* The except branch answering with the bare message.
HTTPExceptionBare(e) == [status |-> 500, body |-> [detail |-> e.msg]]

\* HTTPException(status_code=500, detail=f"OpenAI API error: {str(e)}") as
\* the response the framework sends for it.
HTTPException(e) ==
    [status |-> 500, body |-> [detail |-> ErrorPrefix \o e.msg]]

\* The except branch of api_explain_risk: explain_risk raised.
Except(r) ==
    /\ pc[r] = "handler"
    /\ outcome[r].kind = "raise"
    /\ response' = [response EXCEPT ![r] = HTTPException(outcome[r])]
    /\ pc' = [pc EXCEPT ![r] = "responded"]
    /\ loop' = 0
    /\ UNCHANGED <<client, stack, risk_scores, context, calls, reply, outcome,
                   harness_vars>>

InternalServerError == [status |-> 500, body |-> [text |-> "Internal Server Error"]]

\* response_model=RiskExplanation: the returned value is validated and
\* serialized; a value that does not validate is the framework's own 500.
Serialize(v) ==
    IF RiskExplanation(v) THEN [status |-> 200, body |-> v]
    ELSE InternalServerError

\* The handler answers with what another request's explain_risk returned.
ReturnShared(r) ==
    /\ pc[r] = "handler"
    /\ outcome[r].kind = "return"
    /\ LET others == {q \in Reqs : q # r /\ outcome[q].kind = "return"}
           src == IF others = {} THEN r ELSE CHOOSE q \in others : TRUE
       IN  response' = [response EXCEPT ![r] = Serialize(outcome[src].value)]
    /\ pc' = [pc EXCEPT ![r] = "responded"]
    /\ loop' = 0
    /\ UNCHANGED <<client, stack, risk_scores, context, calls, reply, outcome,
                   harness_vars>>

\* api_explain_risk returns the explanation: explain_risk returned.
Return(r) ==
    /\ pc[r] = "handler"
    /\ outcome[r].kind = "return"
    /\ response' = [response EXCEPT ![r] = Serialize(outcome[r].value)]
    /\ pc' = [pc EXCEPT ![r] = "responded"]
    /\ loop' = 0
    /\ UNCHANGED <<client, stack, risk_scores, context, calls, reply, outcome,
                   harness_vars>>

\* ----------------------------------------------------------- specifications
HarnessIdle ==
    /\ call_fn = "none"
    /\ call_arg = <<>>
    /\ call_ret = NotYet

ServiceStart ==
    /\ client = [api_key |-> "OPENAI_API_KEY"]
    /\ loop = 0
    /\ pc = [r \in Reqs |-> "idle"]
    /\ stack = [r \in Reqs |-> <<>>]
    /\ risk_scores = [r \in Reqs |-> <<>>]
    /\ context = [r \in Reqs |-> NotYet]
    /\ calls = [r \in Reqs |-> 0]
    /\ reply = [r \in Reqs |-> NotYet]
    /\ outcome = [r \in Reqs |-> NotYet]
    /\ response = [r \in Reqs |-> NotYet]

Init == ServiceStart /\ HarnessIdle

Next ==
    \/ \E r \in Reqs, st \in Stacks, sc \in ScoreMaps : Arrive(r, st, sc)
    \/ \E r \in Reqs : Enter(r)
    \/ \E r \in Reqs : BuildContext(r)
    \/ \E r \in Reqs : IssueCall(r)
    \/ \E r \in Reqs, rep \in Replies : ProviderReplies(r, rep)
    \/ \E r \in Reqs : Except(r)
    \/ \E r \in Reqs : Return(r)

Spec == Init /\ [][Next]_vars

\* The formatter applied to every input within the bounds.
FmtInit ==
    /\ ServiceStart
    /\ call_ret = NotYet
    /\ \/ call_fn = "format_stack" /\ call_arg \in StackInputs
       \/ call_fn = "format_scores" /\ call_arg \in ScoreInputs

FmtNext == ApplyFormatStack \/ ApplyFormatScores

FmtSpec == FmtInit /\ [][FmtNext]_vars

\* ------------------------------------------------------------------ claims
Responded(r) == pc[r] = "responded"

\* C1: whenever explain_risk raised (the provider call failed, the reply did
\* not validate, or formatting failed), the response is status 500 with body
\* {"detail": "OpenAI API error: <message>"}, <message> being the text of the
\* error raised, and the provider's own message when the provider call failed.
C1_FailureIs500 ==
    \A r \in Reqs :
        (Responded(r) /\ outcome[r].kind = "raise") =>
            /\ response[r].status = 500
            /\ response[r].body = [detail |-> "OpenAI API error: " \o outcome[r].msg]
            /\ reply[r].kind = "error" =>
                   response[r].body.detail = "OpenAI API error: " \o reply[r].msg

\* A provider outage answered, and a formatting failure answered.
C1_Witness ==
    \E r, q \in Reqs :
        /\ Responded(r) /\ reply[r] = [kind |-> "error", msg |-> "Request timed out."]
        /\ Responded(q) /\ outcome[q] = KeyErrorName

\* C2: explain_risk ends by returning a RiskExplanation or by raising; it
\* never returns a value that is not a RiskExplanation, and what it raises
\* after a failed provider call carries the provider's message.
C2_ExplanationOrFailure ==
    \A r \in Reqs :
        outcome[r] # NotYet =>
            \/ outcome[r].kind = "return" /\ RiskExplanation(outcome[r].value)
            \/ /\ outcome[r].kind = "raise"
               /\ reply[r].kind = "error" => outcome[r].msg = reply[r].msg

\* C3: whenever explain_risk returned (the external call succeeded), the
\* response is 200 with a body equal to the explanation of the provider's
\* reply, confidence_score included.
C3_SuccessIs200 ==
    \A r \in Reqs :
        (Responded(r) /\ outcome[r].kind = "return") =>
            /\ response[r].status = 200
            /\ response[r].body = reply[r].content

\* The part of C3 that holds: a reply that carries a valid explanation is
\* answered 200 with that explanation, no field altered, also when its
\* confidence_score is outside [0, 1].
PassThroughWhenParsed ==
    \A r \in Reqs :
        (Responded(r) /\ reply[r].kind = "content"
                      /\ reply[r].content.risk_level # "severe") =>
            response[r] = [status |-> 200, body |-> reply[r].content]

\* C4: every 200 response has a risk_level among low, moderate, high,
\* critical, and a reply with any other risk_level is never answered 200.
C4_ValidRiskLevel ==
    \A r \in Reqs :
        Responded(r) =>
            /\ response[r].status = 200 =>
                   response[r].body.risk_level \in {"low", "moderate", "high", "critical"}
            /\ (reply[r].kind = "content" /\
                reply[r].content.risk_level \notin {"low", "moderate", "high", "critical"})
                   => response[r].status # 200

\* A reply with risk_level "severe" was answered, and one with "critical".
C4_Witness ==
    \E r, q \in Reqs :
        /\ Responded(r) /\ reply[r].kind = "content"
        /\ reply[r].content.risk_level = "severe"
        /\ Responded(q) /\ response[q].status = 200
        /\ response[q].body.risk_level = "critical"

C6_Line(e) ==
    <<"-", " ">> \o e["name"] \o <<":", " ">> \o
    (IF "dosage" \in DOMAIN e THEN e["dosage"] ELSE <<"N", "/", "A">>) \o
    <<" ", "(">> \o
    (IF "timing" \in DOMAIN e THEN e["timing"]
     ELSE <<"u", "n", "s", "p", "e", "c", "i", "f", "i", "e", "d">>) \o
    <<")">>

\* C6: for a stack whose entries all have a name, format_stack returns (never
\* raises) exactly one line per entry, in input order, each
\* "- <name>: <dosage> (<timing>)" with N/A for an entry without dosage and
\* unspecified for an entry without timing.
C6_StackLines ==
    (/\ call_fn = "format_stack"
     /\ call_ret # NotYet
     /\ \A i \in 1..Len(call_arg) : "name" \in DOMAIN call_arg[i]) =>
        /\ call_ret.kind = "return"
        /\ LET lines == SplitLines(call_ret.value)
           IN  /\ Len(lines) = Len(call_arg)
               /\ \A i \in 1..Len(call_arg) : lines[i] = C6_Line(call_arg[i])

\* Two entries formatted, the first with neither dosage nor timing, the
\* second with an empty dosage.
C6_Witness ==
    /\ call_fn = "format_stack"
    /\ call_ret # NotYet
    /\ Len(call_arg) = 2
    /\ DOMAIN call_arg[1] = {"name"}
    /\ DOMAIN call_arg[2] = {"name", "dosage"} /\ call_arg[2]["dosage"] = <<>>

\* str() of the score values of the inputs.
C7_ValueText(v) ==
    CASE v = 2 -> <<"0", ".", "2">>
      [] v = 10 -> <<"1", ".", "0">>
      [] v = -5 -> <<"-", "0", ".", "5">>

\* C7: for a non-empty mapping, format_scores returns exactly one line per
\* key, in the mapping's iteration order, each "<key>: <value>".
C7_ScoreLines ==
    (call_fn = "format_scores" /\ call_ret # NotYet /\ call_arg # <<>>) =>
        /\ call_ret.kind = "return"
        /\ LET lines == SplitLines(call_ret.value)
           IN  /\ Len(lines) = Len(call_arg)
               /\ \A i \in 1..Len(call_arg) :
                      lines[i] = call_arg[i][1] \o <<":", " ">> \o
                                 C7_ValueText(call_arg[i][2])

\* A mapping of two keys formatted, the later key first in the alphabet.
C7_Witness ==
    /\ call_fn = "format_scores"
    /\ call_ret # NotYet
    /\ Len(call_arg) = 2
    /\ call_arg[1][1] = <<"c", "d">> /\ call_arg[2][1] = <<"a">>

\* What request r holds: its arguments, locals and response.
Local(r) ==
    <<pc[r], stack[r], risk_scores[r], context[r], calls[r], reply[r],
      outcome[r], response[r]>>

\* The response that a request's own stack and the provider's reply to its own
\* call determine.
OwnResponse(st, rep) ==
    LET fs == format_stack(st)
    IN  IF fs.kind = "raise" THEN HTTPException(fs)
        ELSE LET p == parse(rep)
             IN  IF p.kind = "raise" THEN HTTPException(p)
                 ELSE Serialize(p.value.parsed)

\* C8: request handling never modifies the client handle, a step changes what
\* one request holds and nothing of any other, and each response is the one
\* determined by the request's own stack, risk_scores and the reply to its
\* own call.
C8_NoSharedState ==
    /\ [](\A r \in Reqs :
             Responded(r) => response[r] = OwnResponse(stack[r], reply[r]))
    /\ [][/\ client' = client
          /\ \A r, q \in Reqs :
                 (r # q /\ Local(r)' # Local(r)) => Local(q)' = Local(q)]_vars

\* Two requests answered, each with the explanation of its own reply.
C8_Witness ==
    \E r, q \in Reqs :
        /\ r # q
        /\ Responded(r) /\ Responded(q)
        /\ response[r].status = 200 /\ response[q].status = 200
        /\ response[r] # response[q]

\* C9: while a request waits on its external call the event loop can start
\* the handling of another request, and a response is sent only after the
\* request's own call has ended.
C9_OneSuspensionPoint ==
    /\ \A r, q \in Reqs :
           (pc[r] = "waiting" /\ pc[q] = "accepted") => ENABLED Enter(q)
    /\ \A r \in Reqs :
           (Responded(r) /\ calls[r] > 0) => reply[r] # NotYet

\* The part of C9 that holds: while a request is between entering the handler
\* and its response, no other request is, and a response follows the end of
\* the request's own call.
SerialHandling ==
    /\ \A r, q \in Reqs :
           (r # q /\ pc[r] \in {"explain_risk", "call", "waiting", "handler"})
               => pc[q] \in {"idle", "accepted", "responded"}
    /\ \A r \in Reqs :
           (Responded(r) /\ calls[r] > 0) => reply[r] # NotYet

HasNameless(st) == \E i \in 1..Len(st) : "name" \notin DOMAIN st[i]

\* C10: the prompt is built before the call is issued; a request whose stack
\* has an entry without a name never reaches the provider, and is answered
\* 500 with the detail "OpenAI API error: 'name'", the shape of the response
\* to a provider failure.
C10_FormatBeforeCall ==
    \A r \in Reqs :
        /\ calls[r] > 0 => context[r] # NotYet
        /\ (pc[r] # "idle" /\ HasNameless(stack[r])) =>
               /\ calls[r] = 0
               /\ reply[r] = NotYet
               /\ Responded(r) =>
                      /\ response[r].status = 500
                      /\ response[r].body = [detail |-> "OpenAI API error: 'name'"]

\* A request with a nameless entry was answered.
C10_Witness ==
    \E r \in Reqs : Responded(r) /\ HasNameless(stack[r])

====
